---- MODULE Spec2Model ----
(***************************************************************************)
(* A model of ldm_patched/modules/sampler_helpers.py: the collection of    *)
(* auxiliary models and hooks from a conditioning set, the memory          *)
(* estimate, the device-load request, the registration of hooks on the     *)
(* model options, and the cleanup of auxiliary models.                     *)
(*                                                                         *)
(* A conditioning entry is a Python dict; it is modelled as a record whose *)
(* DOMAIN is the set of keys present, so `'control' in c` is               *)
(* "control" \in DOMAIN c.  Objects are compared by identity, so each is   *)
(* a number: the control nets are 1..NumNodes, then come two more          *)
(* auxiliary models and the primary model; hooks are numbered separately.  *)
(***************************************************************************)
EXTENDS Integers, Sequences, FiniteSets, TLC

\* ------------------------------------------------------------------ bounds
NumNodes == 3
MaxEntries == 2
MaxCalls == 2

\* --------------------------------------------------------------- universes
None == 0
Nodes == 1..NumNodes
\* Hooks are numbered: hook n is the one control net n may carry as its
\* extra hook, hook NumNodes + 1 is carried by no control net.
Hooks == 1..(NumNodes + 1)
NoneGroup == <<None>>
\* Resources are numbered too: the control nets, two more auxiliary models
\* and the primary model.
Aux1 == NumNodes + 1
Aux2 == NumNodes + 2
Primary == NumNodes + 3
Resources == 1..Primary
BranchOrder == <<"positive", "negative">>
Branches == {"positive", "negative"}

VARIABLES
    conds,        \* the conditioning set: branch name -> sequence of entries
    prev,         \* previous_controlnet of every control net (None: no previous)
    extra_hooks,  \* extra_hooks of every control net (NoneGroup: None)
    pc,           \* position of the running operation
    k,            \* index in BranchOrder of the branch processed next
    full_hooks,   \* HookGroup.hooks of the accumulating group, in insertion order
    walks,        \* history: per walk from a root, the nodes whose extra_hooks was read
    hook_type,    \* the EnumHookType of every hook
    patcher,      \* the ModelPatcher's own wrappers and callbacks
    model_options,\* the options structure prepare_model_patcher works on
    calls,        \* prepare_model_patcher calls begun on model_options
    first,        \* history: conds and model_options as the first call left them
    noise_shape,  \* the shape of the output of the computation
    models,       \* _prepare_sampling: its list of auxiliary models
    inference_memory, \* _prepare_sampling: the hint of get_additional_models
    nested,       \* what model.get_nested_additional_models() returned
    est,          \* estimate_memory: the two memory_required calls and results
    loads,        \* the requests load_models_gpu has received
    cleanups,     \* how often cleanup() was called on each resource
    failed_at,    \* the step of _prepare_sampling that raised ("": none)
    done          \* history: the steps of _prepare_sampling that completed

hookVars == <<pc, k, full_hooks, walks>>
hookVars_k == <<k, full_hooks, walks>>
patcherVars == <<hook_type, patcher, model_options, calls, first>>
prepVars == <<noise_shape, models, inference_memory, nested, est, loads, cleanups, failed_at,
              done>>
vars == <<conds, prev, extra_hooks, hookVars, patcherVars, prepVars>>
inputVars == <<conds, prev, extra_hooks>>

\* ----------------------------------------------------------------- helpers
Range(s) == {s[i] : i \in 1..Len(s)}

RECURSIVE Flatten(_)
Flatten(ss) == IF ss = <<>> THEN <<>> ELSE Head(ss) \o Flatten(Tail(ss))

Count(s, x) == Cardinality({i \in 1..Len(s) : s[i] = x})

\* The elements of S in some order.
SetToSeq(S) == CHOOSE s \in [1..Cardinality(S) -> S] : Range(s) = S

\* The orders in which a loop over a Python set may take its elements.
Orderings(S) == {s \in [1..Cardinality(S) -> S] : Range(s) = S}

\* c is a conditioning set over the entries E with at most MaxEntries
\* entries.
IsCondSet(c, E) ==
    \E n1 \in 0..MaxEntries : \E n2 \in 0..(MaxEntries - n1) :
        \E p \in [1..n1 -> E], q \in [1..n2 -> E] :
            c = [positive |-> p, negative |-> q]

\* The nodes on the chain of root r under the links p: r, its previous, ...
\* (a fixpoint, so it is defined for cyclic chains too).
RECURSIVE Closure(_, _)
Closure(p, S) ==
    LET T == S \cup ({p[n] : n \in S} \ {None})
    IN IF T = S THEN S ELSE Closure(p, T)
Chain(r) == Closure(prev, {r})
AcyclicLinks(p) == \A n \in Nodes : p[n] = None \/ n \notin Closure(p, {p[n]})

\* Chains whose links lead to higher-numbered nodes: every acyclic chain
\* forest, up to the naming of its nodes.
AcyclicPrevs == {p \in [Nodes -> Nodes \cup {None}] : \A n \in Nodes : p[n] = None \/ p[n] > n}
\* The same with the last node linked back: the chains that hold a cycle.
CyclicPrevs == {[p EXCEPT ![NumNodes] = b] : p \in AcyclicPrevs, b \in Nodes}

\* ------------------------------------------------------------- HookGroup
\* HookGroup.add: a hook already in the group is not added again.
HookGroup_add(hooks, hook) ==
    IF hook \in Range(hooks) THEN hooks ELSE Append(hooks, hook)

RECURSIVE HookGroup_add_all(_, _)
HookGroup_add_all(hooks, more) ==
    IF more = <<>> THEN hooks
    ELSE HookGroup_add_all(HookGroup_add(hooks, Head(more)), Tail(more))

\* HookGroup.combine_all_hooks: None for no group, else the groups combined.
combine_all_hooks(list) ==
    IF list = <<>> THEN NoneGroup ELSE HookGroup_add_all(<<>>, Flatten(list))

\* ------------------------------------------------- get_hooks_from_cond
\* Lines 32-35: the hooks of the entries of one branch, added in order.
RECURSIVE AddCondHooks(_, _)
AddCondHooks(hooks, cond) ==
    IF cond = <<>> THEN hooks
    ELSE AddCondHooks(
            IF "hooks" \in DOMAIN Head(cond)
            THEN HookGroup_add_all(hooks, Head(cond).hooks)
            ELSE hooks,
            Tail(cond))

\* Lines 36-37 and 47: the distinct control roots of one branch.
CondCnets(cond) ==
    {cond[i].control : i \in {j \in 1..Len(cond) : "control" \in DOMAIN cond[j]}}

\* The interpreter's recursion limit: more frames than any acyclic chain needs.
RecursionLimit == NumNodes + 2

\* Faulty variant: the walk stops at the root and never follows previous_controlnet.
NextCnet_RootOnly(cnet) == None
\* Lines 42-44: the node get_extra_hooks_from_cnet recurses into after cnet.
NextCnet(cnet) == prev[cnet]

\* Lines 39-44: get_extra_hooks_from_cnet(cnet, _list) at call depth `depth`.
\* Its result: the list, the nodes it read extra_hooks of, and whether the
\* recursion ran into the interpreter's limit (RecursionError).
RECURSIVE get_extra_hooks_from_cnet(_, _, _, _)
get_extra_hooks_from_cnet(cnet, _list, seen, depth) ==
    LET list2 == IF extra_hooks[cnet] # NoneGroup
                 THEN Append(_list, extra_hooks[cnet])
                 ELSE _list
        seen2 == Append(seen, cnet)
    IN IF NextCnet(cnet) = None
       THEN [list |-> list2, seen |-> seen2, error |-> FALSE]
       ELSE IF depth >= RecursionLimit
       THEN [list |-> list2, seen |-> seen2, error |-> TRUE]
       ELSE get_extra_hooks_from_cnet(NextCnet(cnet), list2, seen2, depth + 1)

\* Lines 48-49: the loop over the roots, taken in the order `order`.  It
\* stops at the first walk that raises.  Its result: hooks_list, the walks
\* made (under seen), and whether a walk raised.
RECURSIVE WalkRoots(_, _, _)
WalkRoots(order, hooks_list, walked) ==
    IF order = <<>> THEN [list |-> hooks_list, seen |-> walked, error |-> FALSE]
    ELSE LET r == get_extra_hooks_from_cnet(Head(order), hooks_list, <<>>, 1)
         IN IF r.error
            THEN [r EXCEPT !.seen = Append(walked, r.seen)]
            ELSE WalkRoots(Tail(order), r.list, Append(walked, r.seen))

\* get_hooks_from_cond(conds[k], hooks): one iteration of the loop of
\* prepare_model_patcher (lines 159-160).
GetHooksFromCond ==
    /\ pc = "collect"
    /\ LET cond == conds[BranchOrder[k]]
           hooks1 == AddCondHooks(full_hooks, cond)
       IN \E order \in Orderings(CondCnets(cond)) :
            \E w \in {WalkRoots(order, <<>>, <<>>)} :
            LET extra == combine_all_hooks(w.list)
            IN /\ walks' = walks \o w.seen
               /\ IF w.error
                  THEN /\ pc' = "RecursionError"
                       /\ full_hooks' = hooks1
                       /\ k' = k
                  ELSE /\ full_hooks' = IF extra # NoneGroup
                                        THEN HookGroup_add_all(hooks1, extra)
                                        ELSE hooks1
                       /\ k' = k + 1
                       /\ pc' = IF k < Len(BranchOrder) THEN "collect" ELSE "collected"
    /\ UNCHANGED <<inputVars, patcherVars, prepVars>>

\* ------------------------------------------- hook collection: inputs
\* The hook group an entry may carry, and the extra hooks of the control
\* nets: each carries its own hook, except at most one that carries None.
\* An entry has hooks, a control net, both (control net 1) or neither.
EntryHookGroups == {<<NumNodes + 1>>}
ExtraHookChoices ==
    {[n \in Nodes |-> IF n = lacks THEN NoneGroup ELSE <<n>>] : lacks \in Nodes \cup {None}}
HookEntries ==
    {[x \in {} |-> 0]}
    \cup {[hooks |-> g] : g \in EntryHookGroups}
    \cup {[control |-> n] : n \in Nodes}
    \cup {[hooks |-> g, control |-> 1] : g \in EntryHookGroups}

InitCollect ==
    /\ pc = "collect"
    /\ k = 1
    /\ full_hooks = <<>>
    /\ walks = <<>>

\* A ModelPatcher without wrappers or callbacks, and fresh options.
EmptyDict == [x \in {} |-> <<>>]
FreshOptions == [transformer_options |-> EmptyDict]
NoConds == [positive |-> <<>>, negative |-> <<>>]
InitNoPatcher ==
    /\ hook_type = [h \in Hooks |-> "Weight"]
    /\ patcher = [wrappers |-> EmptyDict, callbacks |-> EmptyDict]
    /\ model_options = FreshOptions
    /\ calls = 1
    /\ first = [conds |-> NoConds, options |-> FreshOptions]

\* No _prepare_sampling call has begun.
InitNoPrepare ==
    /\ noise_shape = <<1, 2>>
    /\ models = <<>>
    /\ inference_memory = 0
    /\ nested = <<>>
    /\ est = EmptyDict
    /\ loads = <<>>
    /\ cleanups = [r \in Resources |-> 0]
    /\ failed_at = ""
    /\ done = <<>>

InitHooks ==
    /\ IsCondSet(conds, HookEntries)
    /\ prev \in AcyclicPrevs
    /\ extra_hooks \in ExtraHookChoices
    /\ InitCollect
    /\ InitNoPatcher
    /\ InitNoPrepare

InitHooksCyclic ==
    /\ IsCondSet(conds, HookEntries)
    /\ prev \in {p \in CyclicPrevs : ~AcyclicLinks(p)}
    /\ extra_hooks \in ExtraHookChoices
    /\ InitCollect
    /\ InitNoPatcher
    /\ InitNoPrepare

NextHooks == GetHooksFromCond

\* Hook collection over acyclic control chains.
SpecHooks == InitHooks /\ [][NextHooks]_vars
\* Hook collection over control chains that hold a cycle.
SpecHooksCyclic == InitHooksCyclic /\ [][NextHooks]_vars

\* --------------------------------------------- prepare_model_patcher
\* A dict: d with d[key] set to v.
Put(d, key, v) == [x \in DOMAIN d \cup {key} |-> IF x = key THEN v ELSE d[x]]

\* patcher_extension.copy_nested_dicts: a copy, equal to its argument.
copy_nested_dicts(d) == d

\* patcher_extension.merge_nested_dicts(dict1, dict2, copy_dict1=False) on
\* dicts of lists: a key of both has its lists concatenated, a key of one
\* keeps its list.
merge_nested_dicts(dict1, dict2) ==
    [key \in DOMAIN dict1 \cup DOMAIN dict2 |->
        IF key \in DOMAIN dict1 /\ key \in DOMAIN dict2 THEN dict1[key] \o dict2[key]
        ELSE IF key \in DOMAIN dict1 THEN dict1[key]
        ELSE dict2[key]]

\* AdditionalModelsHook.models: the hook that no control net carries brings
\* the first auxiliary model, any other hook the second.
hook_models(h) == IF h = NumNodes + 1 THEN <<Aux1>> ELSE <<Aux2>>

\* HookGroup.get_type: the hooks of one type, in the group's order.
get_type(hooks, t) == SelectSeq(hooks, LAMBDA h : hook_type[h] = t)

\* Lines 165-176: every hook of the collected group registers itself, the
\* TransformerOptions hooks first, then the AdditionalModels hooks, then the
\* weight hooks (ModelPatcher.register_all_hook_patches).
RegisterAll(hooks) ==
    HookGroup_add_all(<<>>,
        get_type(hooks, "TransformerOptions") \o get_type(hooks, "AdditionalModels")
            \o get_type(hooks, "Weight"))

\* Lines 178-179: the registry is attached to the options if it is not empty.
AttachRegistered(options, registered) ==
    IF Len(registered) > 0 THEN Put(options, "registered_hooks", registered) ELSE options

\* Lines 181-184: setdefault of to_load_options and of its wrappers and
\* callbacks, each merged with the working transformer_options.
MergeToLoadOptions(options) ==
    LET to_load == IF "to_load_options" \in DOMAIN options
                   THEN options.to_load_options ELSE EmptyDict
        old(wc) == IF wc \in DOMAIN to_load THEN to_load[wc] ELSE EmptyDict
    IN Put(options, "to_load_options",
           [wc \in DOMAIN to_load \cup {"wrappers", "callbacks"} |->
               IF wc \in {"wrappers", "callbacks"}
               THEN merge_nested_dicts(old(wc), options.transformer_options[wc])
               ELSE to_load[wc]])

\* Lines 161-185 of prepare_model_patcher, after its loop over the branches.
PrepareModelPatcher ==
    /\ pc = "collected"
    /\ LET o1 == Put(model_options, "transformer_options",
                     Put(Put(model_options.transformer_options,
                             "wrappers", copy_nested_dicts(patcher.wrappers)),
                         "callbacks", copy_nested_dicts(patcher.callbacks)))
           o2 == AttachRegistered(o1, RegisterAll(full_hooks))
           o3 == MergeToLoadOptions(o2)
       IN /\ model_options' = o3
          /\ first' = IF calls = 1 THEN [conds |-> conds, options |-> o3] ELSE first
    /\ pc' = "registered"
    /\ UNCHANGED <<inputVars, k, full_hooks, walks, hook_type, patcher, calls, prepVars>>

\* The entries of the requests: hooks of their own, control net 1, both or
\* neither.
PatcherEntries == {c \in HookEntries : "control" \in DOMAIN c => c.control = 1}

\* The next request: prepare_model_patcher is called again, with any
\* conditioning set, on the options the earlier call left.
NextRequest ==
    /\ pc = "registered"
    /\ calls < MaxCalls
    /\ calls' = calls + 1
    /\ IsCondSet(conds', PatcherEntries)
    /\ pc' = "collect"
    /\ k' = 1
    /\ full_hooks' = <<>>
    /\ walks' = <<>>
    /\ UNCHANGED <<prev, extra_hooks, hook_type, patcher, model_options, first, prepVars>>

HookTypes == {"TransformerOptions", "AdditionalModels", "Weight"}
NestedDicts == {EmptyDict, [diffusion_model |-> <<"fn">>]}

InitPatcher ==
    /\ IsCondSet(conds, PatcherEntries)
    /\ prev \in {[n \in Nodes |-> IF n = 1 /\ link THEN 2 ELSE None] : link \in BOOLEAN}
    /\ extra_hooks = [n \in Nodes |-> <<n>>]
    /\ InitCollect
    /\ hook_type \in {[h \in Hooks |-> t] : t \in HookTypes}
    /\ patcher \in {[wrappers |-> d, callbacks |-> d] : d \in NestedDicts}
    /\ model_options = FreshOptions
    /\ calls = 1
    /\ first = [conds |-> NoConds, options |-> FreshOptions]
    /\ InitNoPrepare

NextPatcher ==
    \/ GetHooksFromCond
    \/ PrepareModelPatcher
    \/ NextRequest

\* prepare_model_patcher, called once per request on the same options.
SpecPatcher == InitPatcher /\ [][NextPatcher]_vars

\* C8: a second call with the same conditioning set on the options the first
\* call left leaves to_load_options and registered_hooks as one call made
\* them, and after a call whose conditioning yields no hooks the options
\* hold no registered_hooks.
HasRegistered(options) == "registered_hooks" \in DOMAIN options
C8_Idempotent ==
    pc = "registered" =>
        /\ (calls = 2 /\ conds = first.conds) =>
              /\ model_options.to_load_options = first.options.to_load_options
              /\ HasRegistered(model_options) = HasRegistered(first.options)
              /\ HasRegistered(model_options) =>
                    model_options.registered_hooks = first.options.registered_hooks
        /\ full_hooks = <<>> => ~HasRegistered(model_options)

\* ------------------------------------------- hook collection: claims
AllEntries == conds.positive \o conds.negative
ReferencedRoots == CondCnets(AllEntries)
EntryHooks ==
    UNION {Range(AllEntries[i].hooks) :
           i \in {j \in 1..Len(AllEntries) : "hooks" \in DOMAIN AllEntries[j]}}
ChainExtraHooks ==
    UNION {Range(extra_hooks[m]) :
           m \in {n \in UNION {Chain(r) : r \in ReferencedRoots} : extra_hooks[n] # NoneGroup}}

\* C4: once get_hooks_from_cond has run on every branch, the accumulated
\* group holds exactly the hooks of the entries' 'hooks' groups and of the
\* extra_hooks groups of every node on the chain of every referenced root
\* (nodes whose extra_hooks is None add nothing), each hook once.
C4_HooksAreUnion ==
    pc = "collected" =>
        /\ Range(full_hooks) = EntryHooks \cup ChainExtraHooks
        /\ \A h \in Hooks : Count(full_hooks, h) <= 1

\* A chain of two or more nodes whose last node carries extra hooks and one
\* of whose nodes carries none, next to an entry with hooks of its own.
C4_Witness ==
    /\ pc = "collected"
    /\ EntryHooks # {}
    /\ \E r \in ReferencedRoots :
          /\ prev[r] # None
          /\ \E m \in Chain(r) : prev[m] = None /\ extra_hooks[m] # NoneGroup
          /\ \E m \in Chain(r) : extra_hooks[m] = NoneGroup

\* C5: during the collection for one conditioning set no node's extra_hooks
\* is read more than once.
C5_LookupAtMostOnce ==
    \A n \in Nodes : Count(Flatten(walks), n) <= 1

\* C6: a cycle in a control chain is detected: no walk from a root reads
\* the extra_hooks of a node it has read before.
C6_CycleDetected ==
    \A i \in 1..Len(walks) : \A n \in Nodes : Count(walks[i], n) <= 1

\* ------------------------------------------------------ estimate_memory
RECURSIVE Volume(_)
\* math.prod of a shape.
Volume(shape) == IF shape = <<>> THEN 1 ELSE Head(shape) * Volume(Tail(shape))

RECURSIVE SumSeq(_)
SumSeq(xs) == IF xs = <<>> THEN 0 ELSE Head(xs) + SumSeq(Tail(xs))

RECURSIVE SumOver(_, _)
\* The sum of f[x] over the x of S.
SumOver(S, f) ==
    IF S = {} THEN 0 ELSE LET x == CHOOSE y \in S : TRUE IN f[x] + SumOver(S \ {x}, f)

\* model.model.extra_conds_shapes(**cond): the shape of each bucket the entry
\* asks for; the entry carries them under "shapes".
extra_conds_shapes(cond) == IF "shapes" \in DOMAIN cond THEN cond.shapes ELSE EmptyDict

\* model.model.memory_required(shape, cond_shapes): a cost that grows with
\* the output shape and with every shape it is given.
memory_required_of(shape, cond_shapes) ==
    Volume(shape)
    + SumOver(DOMAIN cond_shapes,
              [b \in DOMAIN cond_shapes |->
                  SumSeq([i \in 1..Len(cond_shapes[b]) |-> Volume(cond_shapes[b][i])])])

\* Faulty variant: `>=` for `>` in line 118: on a tie the last-seen shape is kept.
Larger_OrEqual(v, w) == Volume(v) >= Volume(w)
\* Line 118: math.prod(v) > math.prod(cond_shapes_min[k][0]).
Larger(v, w) == Volume(v) > Volume(w)

\* Lines 114-119 for the entries of all branches, in order.
RECURSIVE AccumulateShapes(_, _, _)
AccumulateShapes(entries, cond_shapes, cond_shapes_min) ==
    IF entries = <<>> THEN [cond_shapes |-> cond_shapes, cond_shapes_min |-> cond_shapes_min]
    ELSE LET sh == extra_conds_shapes(Head(entries))
             keys == DOMAIN cond_shapes \cup DOMAIN sh
         IN AccumulateShapes(Tail(entries),
                [b \in keys |->
                    IF b \notin DOMAIN sh THEN cond_shapes[b]
                    ELSE IF b \in DOMAIN cond_shapes THEN Append(cond_shapes[b], sh[b])
                    ELSE <<sh[b]>>],
                [b \in keys |->
                    IF b \notin DOMAIN sh THEN cond_shapes_min[b]
                    ELSE IF b \notin DOMAIN cond_shapes_min THEN <<sh[b]>>
                    ELSE IF Larger(sh[b], cond_shapes_min[b][1]) THEN <<sh[b]>>
                    ELSE cond_shapes_min[b]])

\* conds.items(): the entries of every branch, in the order of the branches.
CondsEntries(cs) == Flatten([i \in 1..Len(BranchOrder) |-> cs[BranchOrder[i]]])

\* Lines 109-123: the arguments of the two memory_required calls and their
\* results.
estimate_memory(shape, cs) ==
    LET acc == AccumulateShapes(CondsEntries(cs), EmptyDict, EmptyDict)
        required_args == [shape |-> <<shape[1] * 2>> \o Tail(shape),
                          cond_shapes |-> acc.cond_shapes]
        minimum_args == [shape |-> <<shape[1]>> \o Tail(shape),
                         cond_shapes |-> acc.cond_shapes_min]
    IN [required_args |-> required_args,
        minimum_args |-> minimum_args,
        memory_required |-> memory_required_of(required_args.shape, required_args.cond_shapes),
        minimum_memory_required |->
            memory_required_of(minimum_args.shape, minimum_args.cond_shapes)]

\* ---------------------------------------------- get_additional_models
\* Lines 23-26: a value under 'additional_models' is a list; a control net
\* and a gligen tuple are not.
IsList(model_type) == model_type = "additional_models"

\* Lines 19-27.
RECURSIVE get_models_from_cond(_, _)
get_models_from_cond(cond, model_type) ==
    IF cond = <<>> THEN <<>>
    ELSE (IF model_type \in DOMAIN Head(cond)
          THEN IF IsList(model_type) THEN Head(cond)[model_type]
               ELSE <<Head(cond)[model_type]>>
          ELSE <<>>) \o get_models_from_cond(Tail(cond), model_type)

\* Lines 75-78 (and 148-149): the models of one type of every branch.
ModelsOfType(cs, model_type) ==
    Flatten([i \in 1..Len(BranchOrder) |-> get_models_from_cond(cs[BranchOrder[i]], model_type)])

\* ControlBase.get_models(): the models of the control net's whole chain,
\* those of its previous control net first.
RECURSIVE get_models(_)
get_models(m) == IF prev[m] = None THEN <<m>> ELSE get_models(prev[m]) \o <<m>>

\* ControlBase.inference_memory_requirements(dtype): each control net
\* reports an amount of its own.
inference_memory_requirements(m) == 2 ^ (m - 1)

\* Faulty variant: line 80 without set(): the loop of line 84 visits the list cnets.
ControlNetOrders_NoSet(cs) == {ModelsOfType(cs, "control")}
\* Line 80: control_nets = set(cnets), and the orders in which the loop of
\* line 84 may visit it (the program does not choose the order).
ControlNetOrders(cs) == Orderings(Range(ModelsOfType(cs, "control")))

\* Lines 69-91, the loop of line 84 visiting control_nets in the given order.
get_additional_models(cs, control_nets) ==
    LET control_models == Flatten([i \in 1..Len(control_nets) |-> get_models(control_nets[i])])
        gligen0 == ModelsOfType(cs, "gligen")
        gligen == [i \in 1..Len(gligen0) |-> gligen0[i][2]]
        add_models == ModelsOfType(cs, "additional_models")
    IN [models |-> control_models \o gligen \o add_models,
        inference_memory |->
            SumSeq([i \in 1..Len(control_nets) |-> inference_memory_requirements(control_nets[i])])]

\* Lines 93-101.
get_additional_models_from_model_options(options) ==
    IF "registered_hooks" \in DOMAIN options
    THEN Flatten([i \in 1..Len(get_type(options.registered_hooks, "AdditionalModels")) |->
                     hook_models(get_type(options.registered_hooks, "AdditionalModels")[i])])
    ELSE <<>>

\* ------------------------------------------------- _prepare_sampling
\* Faulty variant: the device load moved before the memory estimate.
PrepOrder_LoadEarly ==
    <<"get_additional_models", "hook_models", "nested_models", "load_models_gpu",
      "estimate_memory">>
\* Lines 135-139: the steps of _prepare_sampling, in order.
PrepOrder ==
    <<"get_additional_models", "hook_models", "nested_models", "estimate_memory",
      "load_models_gpu">>

\* The step after step s; after the last, _prepare_sampling returns (lines
\* 140-142).
StepAfter(s) ==
    LET i == CHOOSE j \in 1..Len(PrepOrder) : PrepOrder[j] = s
    IN IF i < Len(PrepOrder) THEN PrepOrder[i + 1] ELSE "prepared"

\* A step raises: the exception leaves _prepare_sampling.
Raise(step) ==
    /\ pc' = "failed"
    /\ failed_at' = step
    /\ UNCHANGED done

\* A step completes and the next one is due.
Completed(step) ==
    /\ pc' = StepAfter(step)
    /\ done' = Append(done, step)
    /\ UNCHANGED failed_at

\* Line 135.  get_models() or inference_memory_requirements() of a control
\* net may raise.
Prepare_GetAdditionalModels ==
    /\ pc = "get_additional_models"
    /\ \/ /\ \E control_nets \in ControlNetOrders(conds) :
               \E r \in {get_additional_models(conds, control_nets)} :
                  /\ models' = r.models
                  /\ inference_memory' = r.inference_memory
          /\ Completed(pc)
       \/ /\ ModelsOfType(conds, "control") # <<>>
          /\ Raise(pc)
          /\ UNCHANGED <<models, inference_memory>>
    /\ UNCHANGED <<inputVars, hookVars_k, patcherVars, noise_shape, nested, est, loads, cleanups>>

\* Line 136.
Prepare_HookModels ==
    /\ pc = "hook_models"
    /\ models' = models \o get_additional_models_from_model_options(model_options)
    /\ Completed(pc)
    /\ UNCHANGED <<inputVars, hookVars_k, patcherVars, noise_shape, inference_memory, nested,
                   est, loads, cleanups>>

\* What model.get_nested_additional_models() may return.
NestedChoices == {<<>>, <<Aux1>>}

\* Line 137.  The primary model's get_nested_additional_models() may raise.
Prepare_NestedModels ==
    /\ pc = "nested_models"
    /\ \/ /\ \E n \in NestedChoices :
               /\ nested' = n
               /\ models' = models \o n
          /\ Completed(pc)
       \/ /\ Raise(pc)
          /\ UNCHANGED <<nested, models>>
    /\ UNCHANGED <<inputVars, hookVars_k, patcherVars, noise_shape, inference_memory,
                   est, loads, cleanups>>

\* Line 138.  extra_conds_shapes() or memory_required() may raise.
Prepare_EstimateMemory ==
    /\ pc = "estimate_memory"
    /\ \/ /\ est' = estimate_memory(noise_shape, conds)
          /\ Completed(pc)
       \/ /\ Raise(pc)
          /\ UNCHANGED est
    /\ UNCHANGED <<inputVars, hookVars_k, patcherVars, noise_shape, models, inference_memory,
                   nested, loads, cleanups>>

\* The memory figures of line 139; before estimate_memory has run the two
\* names are unbound.
Estimated(name) == IF name \in DOMAIN est THEN est[name] ELSE 0

\* Line 139.  load_models_gpu receives the request and may raise.
Prepare_LoadModelsGpu ==
    /\ pc = "load_models_gpu"
    /\ loads' = Append(loads,
            [models |-> <<Primary>> \o models,
             memory_required |-> Estimated("memory_required") + inference_memory,
             minimum_memory_required |->
                 Estimated("minimum_memory_required") + inference_memory])
    /\ \/ Completed(pc)
       \/ Raise(pc)
    /\ UNCHANGED <<inputVars, hookVars_k, patcherVars, noise_shape, models, inference_memory,
                   nested, est, cleanups>>

\* ------------------------------------------------------ cleanup_models
\* Line 106: hasattr(m, 'cleanup').  Every resource but the second
\* auxiliary model has a cleanup().
HasCleanup(m) == m # Aux2

\* Lines 103-107.
RECURSIVE cleanup_additional_models(_, _)
cleanup_additional_models(count, ms) ==
    IF ms = <<>> THEN count
    ELSE cleanup_additional_models(
            IF HasCleanup(Head(ms)) THEN [count EXCEPT ![Head(ms)] = @ + 1] ELSE count,
            Tail(ms))

\* Lines 144-151, called with the list _prepare_sampling returned.  The
\* order in which the set of line 151 is visited does not change the counts.
CleanupModels ==
    /\ pc = "prepared"
    /\ cleanups' = cleanup_additional_models(
                       cleanup_additional_models(cleanups, models),
                       SetToSeq(Range(ModelsOfType(conds, "control"))))
    /\ pc' = "cleaned"
    /\ UNCHANGED <<inputVars, hookVars_k, patcherVars, noise_shape, models, inference_memory,
                   nested, est, loads, failed_at, done>>

\* -------------------------------------------- _prepare_sampling: inputs
\* The entries: a control net or an additional-models list, and one entry
\* with a control net, a gligen tuple, additional models and a shape.
PrepareEntries ==
    {[control |-> n] : n \in Nodes}
    \cup {[additional_models |-> <<Aux1>>],
          [control |-> 1, gligen |-> <<"position", Aux1>>,
           additional_models |-> <<Aux1, Aux2>>, shapes |-> [context |-> <<2, 2>>]]}

\* Options without registered hooks, and with a weight hook and an
\* AdditionalModels hook registered.
PrepareOptions == {FreshOptions, Put(FreshOptions, "registered_hooks", <<1, NumNodes + 1>>)}

InitPrepare ==
    /\ IsCondSet(conds, PrepareEntries)
    /\ prev \in AcyclicPrevs
    /\ extra_hooks = [n \in Nodes |-> NoneGroup]
    /\ pc = PrepOrder[1]
    /\ k = 1
    /\ full_hooks = <<>>
    /\ walks = <<>>
    /\ hook_type = [h \in Hooks |-> IF h = NumNodes + 1 THEN "AdditionalModels" ELSE "Weight"]
    /\ patcher = [wrappers |-> EmptyDict, callbacks |-> EmptyDict]
    /\ model_options \in PrepareOptions
    /\ calls = 1
    /\ first = [conds |-> NoConds, options |-> FreshOptions]
    /\ InitNoPrepare

NextPrepare ==
    \/ Prepare_GetAdditionalModels
    \/ Prepare_HookModels
    \/ Prepare_NestedModels
    \/ Prepare_EstimateMemory
    \/ Prepare_LoadModelsGpu
    \/ CleanupModels

\* _prepare_sampling, and cleanup_models on what it returned.
SpecPrepare == InitPrepare /\ [][NextPrepare]_vars

\* ---------------------------------------------- estimate_memory: inputs
MaxDim == 2
Shapes == [1..2 -> 1..MaxDim]
ShapeEntries ==
    {[x \in {} |-> 0], [shapes |-> [y |-> <<1, 1>>]]}
    \cup {[shapes |-> [context |-> v]] : v \in Shapes}
    \cup {[shapes |-> [context |-> v, y |-> <<1, 1>>]] : v \in Shapes}

InitEstimate ==
    /\ IsCondSet(conds, ShapeEntries)
    /\ prev = [n \in Nodes |-> None]
    /\ extra_hooks = [n \in Nodes |-> NoneGroup]
    /\ pc = "estimate_memory"
    /\ k = 1
    /\ full_hooks = <<>>
    /\ walks = <<>>
    /\ InitNoPatcher
    /\ noise_shape \in {<<1, 2>>, <<2, 2, 2>>}
    /\ models = <<>>
    /\ inference_memory = 0
    /\ nested = <<>>
    /\ est = EmptyDict
    /\ loads = <<>>
    /\ cleanups = [r \in Resources |-> 0]
    /\ failed_at = ""
    /\ done = <<>>

\* estimate_memory on its own.
SpecEstimate == InitEstimate /\ [][Prepare_EstimateMemory]_vars

\* ------------------------------------------------------------- claims
\* The entries of the conditioning set, and what they refer to.
EntryAt(b, i) == conds[b][i]
EntryPlaces == {bi \in Branches \X (1..MaxEntries) : bi[2] <= Len(conds[bi[1]])}
RootsOf(b) ==
    {n \in Nodes : \E i \in 1..Len(conds[b]) :
        "control" \in DOMAIN conds[b][i] /\ conds[b][i].control = n}
Roots == UNION {RootsOf(b) : b \in Branches}
CondModels ==
    UNION {Chain(r) : r \in Roots}
    \cup {m \in Resources : \E bi \in EntryPlaces :
            LET c == EntryAt(bi[1], bi[2])
            IN \/ "gligen" \in DOMAIN c /\ c.gligen[2] = m
               \/ "additional_models" \in DOMAIN c /\ m \in Range(c.additional_models)}
HookModels ==
    IF "registered_hooks" \in DOMAIN model_options
    THEN UNION {Range(hook_models(h)) :
                h \in {g \in Range(model_options.registered_hooks) :
                          hook_type[g] = "AdditionalModels"}}
    ELSE {}
Returned == pc \in {"prepared", "cleaned"}

\* C1: the auxiliary list _prepare_sampling hands to the device manager and
\* returns is the union of the models of the conditioning set, of the
\* AdditionalModels hooks and of the primary model's nested models, and
\* holds no resource twice.
C1_UnionWithoutDuplicates ==
    Returned =>
        /\ Len(loads) = 1
        /\ loads[1].models = <<Primary>> \o models
        /\ Range(models) = CondModels \cup HookModels \cup Range(nested)
        /\ \A r \in Resources : Count(models, r) <= 1

\* C2: a control-chain node reachable from both branches is once in what
\* get_additional_models returns.
C2_SharedNodeOnce ==
    (pc = "hook_models" /\ failed_at = "") =>
        \A n \in Nodes :
            (\E r1 \in RootsOf("positive"), r2 \in RootsOf("negative") :
                n \in Chain(r1) /\ n \in Chain(r2))
            => Count(models, n) = 1

\* C3: after cleanup_models every resource was cleaned up at most once, and
\* every control net an entry refers to at least once.
C3_CleanupOnce ==
    pc = "cleaned" =>
        /\ \A r \in Resources : cleanups[r] <= 1
        /\ \A r \in Roots : cleanups[r] >= 1

\* The shapes seen for bucket b, in the order of the entries.
RECURSIVE ShapesIn(_, _)
ShapesIn(entries, b) ==
    IF entries = <<>> THEN <<>>
    ELSE (IF "shapes" \in DOMAIN Head(entries) /\ b \in DOMAIN Head(entries).shapes
          THEN <<Head(entries).shapes[b]>> ELSE <<>>) \o ShapesIn(Tail(entries), b)
SeenShapes(b) == ShapesIn(AllEntries, b)
SeenBuckets == {b \in {"context", "y"} : SeenShapes(b) # <<>>}
IsFirstMax(seq, i) ==
    /\ \A j \in 1..Len(seq) : Volume(seq[j]) <= Volume(seq[i])
    /\ \A j \in 1..(i - 1) : Volume(seq[j]) < Volume(seq[i])

\* C7: the 'required' call of estimate_memory receives, per bucket, every
\* shape seen in encounter order, with the leading dimension of the output
\* shape doubled; the 'minimum' call receives, per bucket, the one shape of
\* largest volume, the first-seen on ties, with the output shape as it is.
C7_EstimateArguments ==
    "required_args" \in DOMAIN est =>
        /\ est.required_args.shape = [noise_shape EXCEPT ![1] = 2 * @]
        /\ est.minimum_args.shape = noise_shape
        /\ DOMAIN est.required_args.cond_shapes = SeenBuckets
        /\ DOMAIN est.minimum_args.cond_shapes = SeenBuckets
        /\ \A b \in SeenBuckets :
              /\ est.required_args.cond_shapes[b] = SeenShapes(b)
              /\ Len(est.minimum_args.cond_shapes[b]) = 1
              /\ \E i \in 1..Len(SeenShapes(b)) :
                    /\ IsFirstMax(SeenShapes(b), i)
                    /\ est.minimum_args.cond_shapes[b][1] = SeenShapes(b)[i]

\* Two different shapes of the same, largest volume were seen for a bucket.
C7_Witness ==
    /\ "required_args" \in DOMAIN est
    /\ \E b \in SeenBuckets : \E i, j \in 1..Len(SeenShapes(b)) :
          /\ i < j
          /\ IsFirstMax(SeenShapes(b), i)
          /\ Volume(SeenShapes(b)[j]) = Volume(SeenShapes(b)[i])
          /\ SeenShapes(b)[j] # SeenShapes(b)[i]

\* C9: a _prepare_sampling call that returns has issued one load request,
\* for the primary model followed by the auxiliary models, with the two
\* estimates each raised by the hint: inference_memory_requirements summed
\* once per distinct control root.
Hint == SumOver(Roots, [r \in Roots |-> inference_memory_requirements(r)])
C9_OneLoadRequest ==
    Returned =>
        /\ Len(loads) = 1
        /\ loads[1].models = <<Primary>> \o models
        /\ Range(models) = CondModels \cup HookModels \cup Range(nested)
        /\ "memory_required" \in DOMAIN est
        /\ loads[1].memory_required = est.memory_required + Hint
        /\ loads[1].minimum_memory_required = est.minimum_memory_required + Hint

\* A root referenced by two entries, and estimates that differ.
C9_Witness ==
    /\ pc = "prepared"
    /\ \E b1, b2 \in EntryPlaces :
          /\ b1 # b2
          /\ "control" \in DOMAIN EntryAt(b1[1], b1[2])
          /\ "control" \in DOMAIN EntryAt(b2[1], b2[2])
          /\ EntryAt(b1[1], b1[2]).control = EntryAt(b2[1], b2[2]).control
    /\ est.memory_required # est.minimum_memory_required

\* C10: the load request is issued only after collection, hook models,
\* nested models and the estimate have completed; if one of them raises, no
\* load request has been issued; and _prepare_sampling cleans up nothing.
BeforeLoad == {"get_additional_models", "hook_models", "nested_models", "estimate_memory"}
C10_NoLoadAfterFailure ==
    /\ loads # <<>> => BeforeLoad \subseteq Range(done)
    /\ (pc = "failed" /\ failed_at \in BeforeLoad) => loads = <<>>
    /\ pc # "cleaned" => \A r \in Resources : cleanups[r] = 0

\* The estimate raised after auxiliary models had been collected.
C10_Witness ==
    /\ pc = "failed"
    /\ failed_at = "estimate_memory"
    /\ models # <<>>
====
